---------------------------- MODULE Spec2Model ----------------------------
(***************************************************************************)
(* A model of the billing application: one Customer record, the time, one  *)
(* StripeEvent record and the task that processes it                       *)
(* (billing/tasks.py), and the subscription commands of                    *)
(* billing/views/api.py.                                                   *)
(*                                                                         *)
(* Optional attributes (a nullable column, an absent payload key) are      *)
(* sequences of length at most one: <<>> is None, <<x>> is the value x.    *)
(* The event payload is the JSON document flattened to dotted paths; a     *)
(* path that is not in DOMAIN payload is a key the document does not have. *)
(* Times are whole ticks.  A POSIX timestamp is a number of ticks since    *)
(* the epoch; a datetime is a record of that number and its time zone.     *)
(***************************************************************************)
EXTENDS Integers, Sequences, FiniteSets, TLC

VARIABLES
  customer,   \* the stored Customer row
  now,        \* timezone.now()
  event,      \* the stored StripeEvent row, <<>> before any delivery
  task,       \* position of process_stripe_event on that row
  next_sub,   \* the next subscription id the processor hands out
  last        \* the last completed unit of work: what ran, on what, its answer

vars == <<customer, now, event, task, next_sub, last>>

----------------------------------------------------------------------------
(* Bounds *)

MaxTime == 2
MaxSubs == 2

PeriodEnds == 0..MaxTime
SubIds     == 1..MaxSubs

----------------------------------------------------------------------------
(* Values *)

None    == <<>>
Some(x) == <<x>>

FREE_DEFAULT == "free_default"
FREE_PRIVATE == "free_private"
PAID_PUBLIC  == "paid_public"
PlanTypes    == {FREE_DEFAULT, FREE_PRIVATE, PAID_PUBLIC}

OK                      == "ok"
OFF                     == "off"
REQUIRES_PAYMENT_METHOD == "requires_payment_method"
PaymentState_ERROR      == "error"
PaymentStates == {OK, OFF, REQUIRES_PAYMENT_METHOD, PaymentState_ERROR}

Status_NEW       == "new"
Status_PENDING   == "pending"
Status_PROCESSED == "processed"
Status_ERROR     == "error"
Terminal         == {Status_PROCESSED, Status_ERROR}

\* The processor-customer reference of the one user of the model, and a
\* reference that belongs to nobody.
OwnCustomerId   == "cus_own"
OtherCustomerId == "cus_other"

CardKeys == {"brand", "last4", "exp_month", "exp_year"}

\* A card as the processor sends it, with fields the application does not keep.
AmexCardWire == [brand |-> "amex", last4 |-> "1234", exp_month |-> 8,
                 exp_year |-> 2021, fingerprint |-> "fp", country |-> "US"]
\* A card document without an expiry.
PartialCardWire == [brand |-> "visa", last4 |-> "1111", funding |-> "credit"]

WireCards == {AmexCardWire, PartialCardWire}

\* dt.fromtimestamp(ts, tz=timezone.utc): the aware datetime of a timestamp.
fromtimestamp(ts) == [timestamp |-> ts, tzinfo |-> "UTC"]

Has(p, k) == k \in DOMAIN p

Restrict(p, D) == [k \in D |-> p[k]]

----------------------------------------------------------------------------
(* Customer *)

\* The check constraint of the customers table: payment_state is off, or
\* there is a subscription id.
payment_state_constraint(c) ==
  c.payment_state # OFF => c.subscription_id # None

\* Customer.state: the derived lifecycle label at time t.
\* Mutant: the instant of the period end is still within the period.
expired_strict(c, t) ==
  c.current_period_end # None /\ c.current_period_end[1].timestamp < t

expired(c, t) ==
  c.current_period_end # None /\ c.current_period_end[1].timestamp <= t

free_default_state(c, t) ==
  IF c.payment_state = OFF
  THEN IF c.current_period_end = None
       THEN IF c.plan = FREE_DEFAULT /\ c.subscription_id = None
            THEN "free_default.new"
            ELSE "free_default.canceled.incomplete"
       ELSE IF expired(c, t) THEN "free_default.canceled" ELSE "unknown"
  ELSE IF c.payment_state = REQUIRES_PAYMENT_METHOD
  THEN IF c.current_period_end = None
       THEN "free_default.incomplete.requires_payment_method"
       ELSE IF expired(c, t)
            THEN "free_default.past_due.requires_payment_method"
            ELSE "unknown"
  ELSE "unknown"

\* Mutant: the subscription id is not looked at.
paid_state_any_subscription(c, t) ==
  IF c.current_period_end # None /\ ~expired(c, t)
  THEN IF c.payment_state = OK THEN "paid.paying"
       ELSE IF c.payment_state = OFF THEN "paid.will_cancel"
       ELSE IF c.payment_state = REQUIRES_PAYMENT_METHOD
       THEN "paid.past_due.requires_payment_method"
       ELSE "unknown"
  ELSE IF c.payment_state \in {OFF, REQUIRES_PAYMENT_METHOD}
  THEN free_default_state(c, t)
  ELSE IF expired(c, t) THEN "paid.canceled"
  ELSE "unknown"

paid_state(c, t) ==
  IF c.current_period_end # None /\ ~expired(c, t)
  THEN IF c.payment_state = OK THEN "paid.paying"
       ELSE IF c.payment_state = OFF
       THEN IF c.subscription_id # None THEN "paid.will_cancel"
            ELSE "paid.canceled"
       ELSE IF c.payment_state = REQUIRES_PAYMENT_METHOD
       THEN "paid.past_due.requires_payment_method"
       ELSE "unknown"
  ELSE IF c.payment_state \in {OFF, REQUIRES_PAYMENT_METHOD}
  THEN free_default_state(c, t)
  ELSE IF expired(c, t) THEN "paid.canceled"
  ELSE "unknown"

free_private_state(c, t) ==
  IF c.current_period_end = None THEN "free_private.indefinite"
  ELSE IF ~expired(c, t) THEN "free_private.will_expire"
  ELSE "free_default.canceled"

state(c, t) ==
  IF c.plan = PAID_PUBLIC THEN paid_state(c, t)
  ELSE IF c.plan = FREE_PRIVATE THEN free_private_state(c, t)
  ELSE free_default_state(c, t)

Labels ==
  {"free_default.new", "free_default.canceled",
   "free_default.canceled.incomplete",
   "free_default.incomplete.requires_payment_method",
   "free_default.past_due.requires_payment_method",
   "paid.paying", "paid.will_cancel", "paid.canceled",
   "paid.past_due.requires_payment_method",
   "free_private.indefinite", "free_private.will_expire"}

\* Mutant: the staff labels have no note of their own.
state_note_no_staff(c, t) ==
  LET label == state(c, t) IN
  IF label \in {"free_default.new", "free_default.canceled.incomplete"} THEN ""
  ELSE IF label = "free_default.canceled" THEN "Subscription expired on"
  ELSE IF label = "paid.paying" THEN "Subscription renews on"
  ELSE IF label = "paid.will_cancel"
  THEN "Subscription cancelled. Access available until"
  ELSE IF label = "paid.canceled" THEN "Subscription will expire on"
  ELSE IF label \in {"free_default.past_due.requires_payment_method",
                     "free_default.incomplete.requires_payment_method",
                     "paid.past_due.requires_payment_method"}
  THEN "There is a problem with your credit card. Please provide a new one or try again."
  ELSE "There is an issue with your subscription. Please contact support."

\* ProfileView.state_note: the note shown for the customer's label, with the
\* date it mentions left out.
state_note(c, t) ==
  LET label == state(c, t) IN
  IF label = "free_default.new" THEN ""
  ELSE IF label = "free_default.canceled" THEN "Subscription expired on"
  ELSE IF label = "free_default.canceled.incomplete" THEN ""
  ELSE IF label = "paid.paying" THEN "Subscription renews on"
  ELSE IF label = "paid.will_cancel"
  THEN "Subscription cancelled. Access available until"
  ELSE IF label = "paid.canceled" THEN "Subscription will expire on"
  ELSE IF label = "free_private.indefinite" THEN "Staff plan, no expiration."
  ELSE IF label = "free_private.will_expire" THEN "Staff plan expires on"
  ELSE IF label \in {"free_default.past_due.requires_payment_method",
                     "free_default.incomplete.requires_payment_method",
                     "paid.past_due.requires_payment_method"}
  THEN "There is a problem with your credit card. Please provide a new one or try again."
  ELSE "There is an issue with your subscription. Please contact support."

\* Mutant: a subscription that is already being canceled can be canceled.
get_context_data_cancel_twice(c, t) ==
  LET label == state(c, t) IN
  [can_create_subscription |->
     label \in {"free_default.new", "free_default.canceled",
                "free_default.canceled.incomplete", "paid.canceled"},
   requires_payment_method |->
     label \in {"free_default.past_due.requires_payment_method",
                "free_default.incomplete.requires_payment_method",
                "paid.past_due.requires_payment_method"},
   can_cancel |-> label \in {"paid.paying", "paid.will_cancel"},
   can_reactivate |-> label = "paid.will_cancel"]

\* ProfileView.get_context_data: what the profile page offers the customer.
get_context_data(c, t) ==
  LET label == state(c, t) IN
  [can_create_subscription |->
     label \in {"free_default.new", "free_default.canceled",
                "free_default.canceled.incomplete", "paid.canceled"},
   requires_payment_method |->
     label \in {"free_default.past_due.requires_payment_method",
                "free_default.incomplete.requires_payment_method",
                "paid.past_due.requires_payment_method"},
   can_cancel |-> label = "paid.paying",
   can_reactivate |-> label = "paid.will_cancel"]

\* Limits: every Limit has a default, and a plan may have a PlanLimit that
\* overrides it.  A table gives, for a plan and a limit name, the PlanLimit
\* value or None.
LimitNames == {"Limit 1", "Limit 2"}

LimitDefault == ("Limit 1" :> 99) @@ ("Limit 2" :> 98)

PlanLimitValue == (FREE_DEFAULT :> 50) @@ (PAID_PUBLIC :> 1) @@ (FREE_PRIVATE :> 0)

PlanLimitTables ==
  {[x \in PlanTypes \X LimitNames |->
      IF x[2] = "Limit 1"
      THEN IF x[1] \in with THEN Some(PlanLimitValue[x[1]]) ELSE None
      ELSE IF x[1] = PAID_PUBLIC /\ second THEN Some(2) ELSE None] :
     with \in SUBSET PlanTypes, second \in BOOLEAN}

\* Mutant: a staff plan without an end date counts as expired, like a paid
\* plan without one.
effective_plan_no_date(c, t) ==
  IF c.plan \in {PAID_PUBLIC, FREE_PRIVATE}
     /\ (c.current_period_end = None \/ expired(c, t))
  THEN FREE_DEFAULT
  ELSE c.plan

\* The plan whose limits govern the customer at time t: the free default
\* plan once a paid plan has no paid period or a staff plan has run out.
effective_plan(c, t) ==
  IF c.plan = PAID_PUBLIC /\ (c.current_period_end = None \/ expired(c, t))
  THEN FREE_DEFAULT
  ELSE IF c.plan = FREE_PRIVATE /\ expired(c, t)
  THEN FREE_DEFAULT
  ELSE c.plan

\* Mutant: without a PlanLimit of the effective plan, the PlanLimit of the
\* customer's own plan is used before the default.
get_limit_own_plan(c, t, name, table) ==
  IF name \notin LimitNames THEN None
  ELSE IF table[<<effective_plan(c, t), name>>] # None
  THEN table[<<effective_plan(c, t), name>>]
  ELSE IF table[<<c.plan, name>>] # None THEN table[<<c.plan, name>>]
  ELSE Some(LimitDefault[name])

\* Customer.get_limit(name): None stands for ObjectDoesNotExist.
get_limit(c, t, name, table) ==
  IF name \notin LimitNames THEN None
  ELSE IF table[<<effective_plan(c, t), name>>] # None
  THEN table[<<effective_plan(c, t), name>>]
  ELSE Some(LimitDefault[name])

\* The Customer a new account is provisioned with.
NewCustomer ==
  [plan |-> FREE_DEFAULT, payment_state |-> OFF, current_period_end |-> None,
   subscription_id |-> None, customer_id |-> None, cc_info |-> None]

\* A customer on a staff plan, assigned without an end date or with one.
StaffCustomers ==
  {[NewCustomer EXCEPT !.plan = FREE_PRIVATE, !.current_period_end = e] :
     e \in {None, Some(fromtimestamp(MaxTime - 1))}}

InitialCustomers == {NewCustomer} \cup StaffCustomers

\* Every combination of the attributes that Customer.state and get_limit read.
AllCustomers ==
  {[NewCustomer EXCEPT !.plan = p, !.payment_state = s,
                       !.current_period_end = e, !.subscription_id = i] :
     p \in PlanTypes, s \in PaymentStates,
     e \in {None} \cup {Some(fromtimestamp(n)) : n \in PeriodEnds},
     i \in {None, Some(1)}}

----------------------------------------------------------------------------
(* StripeEvent: the record and its payload *)

\* Paths of the flattened payload.
K_object         == "object"
K_billing_reason == "data.object.billing_reason"
K_subscription   == "data.object.subscription"
K_period_end     == "data.object.lines.data.0.period.end"
K_id             == "data.object.id"
K_status         == "data.object.status"
K_customer       == "data.object.customer"
K_card           == "data.object.card"

\* What every delivered document has.
BasePayload == K_object :> "event"

\* Either no such key, or the key with one of the values.
Optional(k, values) == {<<>>} \cup {k :> v : v \in values}

SubscriptionStatuses ==
  {"past_due", "canceled", "incomplete_expired", "active", "unpaid"}

\* The documents carry the keys the task reads: a key it would read only
\* after a failed read of another key is left out.
InvoicePayloads ==
  {BasePayload}
    \cup {BasePayload @@ (K_billing_reason :> "subscription_create") @@ s :
            s \in Optional(K_subscription, SubIds)}
    \cup {BasePayload @@ (K_billing_reason :> "subscription_cycle")}
    \cup {BasePayload @@ (K_billing_reason :> "subscription_cycle")
            @@ (K_subscription :> s) @@ e :
            s \in SubIds, e \in Optional(K_period_end, PeriodEnds)}

SubscriptionPayloads ==
  {BasePayload}
    \cup {BasePayload @@ (K_id :> i) @@ s :
            i \in SubIds, s \in Optional(K_status, SubscriptionStatuses)}

PaymentMethodPayloads ==
  {BasePayload}
    \cup {BasePayload @@ (K_customer :> c) @@ k :
            c \in {OwnCustomerId, OtherCustomerId},
            k \in Optional(K_card, WireCards)}

SubscriptionEventTypes ==
  {"customer.subscription.updated", "customer.subscription.deleted"}

RecognizedTypes ==
  {"invoice.paid", "payment_method.automatically_updated"}
    \cup SubscriptionEventTypes

UnrecognizedTypes == {"bad.type", "customer.created"}

NewEvent(type, payload) ==
  [type |-> type, payload |-> payload, status |-> Status_NEW, info |-> ""]

\* The event records a delivery can store.
DeliveredEvents ==
  {NewEvent("invoice.paid", p) : p \in InvoicePayloads}
    \cup {NewEvent(t, p) : t \in SubscriptionEventTypes, p \in SubscriptionPayloads}
    \cup {NewEvent("payment_method.automatically_updated", p) :
            p \in PaymentMethodPayloads}
    \cup {NewEvent(t, BasePayload) : t \in UnrecognizedTypes}

----------------------------------------------------------------------------
(* process_stripe_event *)

\* What one run leaves behind: the stored customer, the event's status and
\* info, the levels logged, and whether an exception left the function.
Outcome(c, status, info, log) ==
  [customer |-> c, status |-> status, info |-> info, log |-> log,
   escaped |-> FALSE]

\* traceback.format_exc() of an exception of class exc.
format_exc(exc) == "Traceback (most recent call last): " \o exc

\* Mutant: the clause catches KeyError only; any other exception leaves the
\* function, and the finally clause saves the event as it is, PENDING.
except_KeyError(c, exc) ==
  IF exc = "KeyError"
  THEN Outcome(c, Status_ERROR, format_exc(exc), {"info", "exception"})
  ELSE [Outcome(c, Status_PENDING, "", {"info"}) EXCEPT !.escaped = TRUE]

\* The except clause: the exception is logged, the event gets ERROR and the
\* traceback; c is the stored customer, which the failed run did not write.
except_Exception(c, exc) ==
  Outcome(c, Status_ERROR, format_exc(exc), {"info", "exception"})

\* Customer.save(): the row is written unless the check constraint fails.
save(c, stored, status, info, log) ==
  IF payment_state_constraint(c)
  THEN Outcome(c, status, info, log)
  ELSE except_Exception(stored, "IntegrityError")

\* Mutant: the lookup takes the first customer, whatever the reference.
get_first(c, ref) == TRUE

\* Mutant: a customer that has no subscription any more is found by the
\* reference it had.
get_by_old_subscription_id(c, ref) ==
  \/ c.subscription_id = Some(ref)
  \/ c.subscription_id = None /\ c.plan = PAID_PUBLIC

\* Customer.objects.get(subscription_id=ref) finds the stored customer.
get_by_subscription_id(c, ref) == c.subscription_id = Some(ref)

\* Customer.objects.get(customer_id=ref) finds the stored customer.
get_by_customer_id(c, ref) == c.customer_id = Some(ref)

\* Mutant: a paid renewal also turns the payment state to ok.
renew_sets_ok(c, period_end) ==
  [c EXCEPT !.current_period_end = Some(fromtimestamp(period_end)),
            !.payment_state = OK]

\* Mutant: the period of the invoice is added to the current period end.
renew_extends(c, period_end) ==
  [c EXCEPT !.current_period_end =
              IF c.current_period_end = None
              THEN Some(fromtimestamp(period_end))
              ELSE Some(fromtimestamp(c.current_period_end[1].timestamp
                                        + period_end))]

\* The renewal: the period end of the invoice's first line becomes the
\* customer's current_period_end.
\* Mutant: a paid renewal forgets the period end.
renew_clears_period(c, period_end) == [c EXCEPT !.current_period_end = None]

renew(c, period_end) ==
  [c EXCEPT !.current_period_end = Some(fromtimestamp(period_end))]

\* Mutant: every paid invoice is taken for a renewal.
is_renewal_always(invoice) == TRUE

\* billing_reason=subscription_cycle means a renewal, not a new subscription.
is_renewal(invoice) == invoice[K_billing_reason] = "subscription_cycle"

\* Mutant: the customer is saved without its old period end before the new
\* one is read from the invoice.
invoice_paid_partial(ev, c) ==
  LET p == ev.payload IN
  IF ~Has(p, K_billing_reason) THEN except_Exception(c, "KeyError")
  ELSE IF is_renewal(p)
  THEN IF ~Has(p, K_subscription) THEN except_Exception(c, "KeyError")
       ELSE IF ~get_by_subscription_id(c, p[K_subscription])
       THEN except_Exception(c, "DoesNotExist")
       ELSE IF ~Has(p, K_period_end)
       THEN except_Exception([c EXCEPT !.current_period_end = None],
                             "KeyError")
       ELSE save(renew(c, p[K_period_end]), c, Status_PROCESSED, ev.info,
                 {"info"})
  ELSE Outcome(c, Status_PROCESSED,
               "Subscription creation webhook. No action was taken.", {"info"})

invoice_paid(ev, c) ==
  LET p == ev.payload IN
  IF ~Has(p, K_billing_reason) THEN except_Exception(c, "KeyError")
  ELSE IF is_renewal(p)
  THEN IF ~Has(p, K_subscription) THEN except_Exception(c, "KeyError")
       ELSE IF ~get_by_subscription_id(c, p[K_subscription])
       THEN except_Exception(c, "DoesNotExist")
       ELSE IF ~Has(p, K_period_end) THEN except_Exception(c, "KeyError")
       ELSE save(renew(c, p[K_period_end]), c, Status_PROCESSED, ev.info,
                 {"info"})
  ELSE Outcome(c, Status_PROCESSED,
               "Subscription creation webhook. No action was taken.", {"info"})

\* Mutant: a failed renewal payment puts the customer in the error state.
past_due_error(c) == [c EXCEPT !.payment_state = PaymentState_ERROR]

past_due(c) == [c EXCEPT !.payment_state = REQUIRES_PAYMENT_METHOD]

\* Mutant: the cancellation clears the subscription id and leaves the
\* payment state.
canceled_keeps_payment_state(c) == [c EXCEPT !.subscription_id = None]

\* Mutant: the cancellation also ends the paid period at once.
canceled_clears_period(c) ==
  [c EXCEPT !.subscription_id = None, !.payment_state = OFF,
            !.current_period_end = None]

canceled(c) == [c EXCEPT !.subscription_id = None, !.payment_state = OFF]

\* Mutant: a customer that is not in the incomplete signup state is left as
\* it is.
incomplete_expired_checked(c, t) ==
  IF state(c, t) # "free_default.incomplete.requires_payment_method"
  THEN [customer |-> c, log |-> {"info", "error"}]
  ELSE [customer |-> [c EXCEPT !.subscription_id = None, !.payment_state = OFF],
        log |-> {"info"}]

\* Mutant: the customer is also put back on the free default plan.
incomplete_expired_free_plan(c, t) ==
  [customer |-> [c EXCEPT !.subscription_id = None, !.payment_state = OFF,
                          !.plan = FREE_DEFAULT],
   log |-> IF state(c, t) # "free_default.incomplete.requires_payment_method"
           THEN {"info", "error"} ELSE {"info"}]

\* incomplete_expired: an error is logged unless the customer is in the
\* incomplete signup state; the customer is changed either way.
incomplete_expired(c, t) ==
  [customer |-> [c EXCEPT !.subscription_id = None, !.payment_state = OFF],
   log |-> IF state(c, t) # "free_default.incomplete.requires_payment_method"
           THEN {"info", "error"} ELSE {"info"}]

\* Mutant: a status that is not actionable leaves no note in the event's info.
not_actionable_silent(ev, c) == Outcome(c, Status_PROCESSED, ev.info, {"info"})

\* Any other status: nothing is written to the customer, the event gets a note.
not_actionable(ev, c) ==
  Outcome(c, Status_PROCESSED,
          "Payload 'status' is not actionable. No action was taken.", {"info"})

subscription_changed(ev, c, t) ==
  LET p == ev.payload IN
  IF ~Has(p, K_id) THEN except_Exception(c, "KeyError")
  ELSE IF ~get_by_subscription_id(c, p[K_id])
  THEN except_Exception(c, "DoesNotExist")
  ELSE IF ~Has(p, K_status) THEN except_Exception(c, "KeyError")
  ELSE IF p[K_status] = "past_due"
  THEN save(past_due(c), c, Status_PROCESSED, ev.info, {"info"})
  ELSE IF p[K_status] = "canceled"
  THEN save(canceled(c), c, Status_PROCESSED, ev.info, {"info"})
  ELSE IF p[K_status] = "incomplete_expired"
  THEN save(incomplete_expired(c, t).customer, c, Status_PROCESSED, ev.info,
            incomplete_expired(c, t).log)
  ELSE not_actionable(ev, c)

\* Mutant: the card document is stored as it came.
cc_info_all(card) == card

\* The dict comprehension over the card document.
cc_info_of(card) == Restrict(card, DOMAIN card \cap CardKeys)

payment_method_automatically_updated(ev, c) ==
  LET p == ev.payload IN
  IF ~Has(p, K_customer) THEN except_Exception(c, "KeyError")
  ELSE IF ~get_by_customer_id(c, p[K_customer])
  THEN except_Exception(c, "DoesNotExist")
  ELSE IF ~Has(p, K_card) THEN except_Exception(c, "KeyError")
  ELSE save([c EXCEPT !.cc_info = Some(cc_info_of(p[K_card]))],
            c, Status_PROCESSED, ev.info, {"info"})

\* Mutant: an event of an unrecognized type is marked PROCESSED.
unrecognized_processed(ev, c) == Outcome(c, Status_PROCESSED, ev.info, {"info"})

unrecognized(ev, c) ==
  Outcome(c, Status_ERROR,
          "StripeEvent type '" \o ev.type \o "' not recognized.", {"info"})

\* The body of the try statement, on the event saved as PENDING.
dispatch(ev, c, t) ==
  IF ev.type = "invoice.paid" THEN invoice_paid(ev, c)
  ELSE IF ev.type \in SubscriptionEventTypes THEN subscription_changed(ev, c, t)
  ELSE IF ev.type = "payment_method.automatically_updated"
  THEN payment_method_automatically_updated(ev, c)
  ELSE unrecognized(ev, c)

----------------------------------------------------------------------------
(* The last unit of work *)

\* op: what ran; pre: the stored customer before it; at: the time it ran;
\* answer: the event's final status or the response; log: the
\* levels logged; calls: the processor operations called; repeat: the run
\* processed the content that the unit of work before it had processed;
\* input: what a command was asked and what the processor answered it.
Work(op, pre, t, answer, log, calls, repeat) ==
  [op |-> op, pre |-> pre, at |-> t, answer |-> answer,
   log |-> log, calls |-> calls, repeat |-> repeat, input |-> <<>>]

NoWork == Work("none", NewCustomer, 0, "none", {}, {}, FALSE)

\* The content of an event record, apart from what processing writes to it.
content(ev) == <<ev.type, ev.payload>>

----------------------------------------------------------------------------
(* The subscription commands *)

\* A response: the stored customer afterwards, the answer, the processor
\* operations called, and whether the processor created a subscription.
Response(c, answer, calls, created) ==
  [customer |-> c, answer |-> answer, calls |-> calls, created |-> created]

ValidationError(msg) == "400 " \o msg

\* e.error.message of a stripe.error.CardError.
CardError_message == "Your card was declined."

\* Mutant: the card error is not caught and leaves the view as a server error.
on_CardError_fault(message) == "500 CardError"

\* except stripe.error.CardError as e: raise ValidationError(e.error.message)
on_CardError(message) == ValidationError(message)

\* Customer.save() in a view: an IntegrityError is a server error, and the row
\* stays as it was stored.
view_save(c, stored, answer, calls, created) ==
  IF payment_state_constraint(c)
  THEN Response(c, answer, calls, created)
  ELSE Response(stored, "500 IntegrityError", calls, created)

\* CreateSubscriptionSerializer on the customer's derived label.  The label of
\* a customer without a subscription in force is accepted and the label of one
\* with an active or unpaid subscription is refused; on the labels in
\* Undetermined the serializer may answer either way.
Creatable    == {"free_default.new", "free_default.canceled"}
Undetermined == {"free_default.canceled.incomplete", "paid.canceled",
                 "free_private.indefinite", "free_private.will_expire",
                 "unknown"}

\* Mutant: the serializer accepts every customer.
serializer_accepts_all(label, lenient) == TRUE

serializer_accepts(label, lenient) ==
  label \in Creatable \/ (lenient /\ label \in Undetermined)

\* Mutant: an active subscription turns the payment state to ok and leaves
\* the period end as it was.
activate_without_period(c, period_end) == [c EXCEPT !.payment_state = OK]

\* Mutant: the paid period is stored and the payment state is left.
activate_period_only(c, period_end) ==
  [c EXCEPT !.current_period_end = Some(fromtimestamp(period_end))]

\* The subscription is active: the period paid for and payment state ok.
activate(c, period_end) ==
  [c EXCEPT !.current_period_end = Some(fromtimestamp(period_end)),
            !.payment_state = OK]

\* Mutant: a failed first payment leaves the payment state off.
payment_failed_off(c) ==
  [c EXCEPT !.current_period_end = None, !.payment_state = OFF]

\* The first payment of the subscription did not go through.
payment_failed(c) ==
  [c EXCEPT !.current_period_end = None,
            !.payment_state = REQUIRES_PAYMENT_METHOD]

\* Mutant: a processor customer is asked for on every request.
needs_customer_always(c) == TRUE

\* if not customer.customer_id
needs_customer(c) == c.customer_id = None

\* services.stripe_create_customer(user): the processor's customer for the
\* user.  An existing record that matches the user is looked for first and
\* used when found; a new one is created otherwise; None when the processor
\* gave none.  found: "found" | "created" | "none".
stripe_create_customer(found) ==
  [id |-> IF found = "none" THEN None ELSE Some(OwnCustomerId),
   calls |-> {"stripe_create_customer", "stripe.Customer.list"}
               \cup IF found = "found" THEN {} ELSE {"stripe.Customer.create"}]

\* req: [plan, lenient]; remote: what the processor answers,
\* [customer, subscription, status, period_end, card, sync].
CreateSubscription_post(c, t, sub_id, req, remote) ==
  IF req.plan # PAID_PUBLIC
  THEN Response(c, ValidationError("Billing plan does not exist."), {}, FALSE)
  ELSE IF ~serializer_accepts(state(c, t), req.lenient)
  THEN Response(c, ValidationError("User already has a subscription."), {}, FALSE)
  ELSE IF needs_customer(c) /\ stripe_create_customer(remote.customer).id = None
  THEN Response(c, ValidationError("These was a problem connecting to Stripe."),
                stripe_create_customer(remote.customer).calls, FALSE)
  ELSE
    LET stripe_customer == stripe_create_customer(remote.customer)
        c1 == IF needs_customer(c)
              THEN [c EXCEPT !.customer_id = stripe_customer.id] ELSE c
        calls1 == IF needs_customer(c) THEN stripe_customer.calls ELSE {}
        calls2 == calls1 \cup {"stripe_create_subscription"}
        calls3 == calls2 \cup {"stripe_customer_sync_metadata_email"}
        c2 == [c1 EXCEPT !.subscription_id = Some(sub_id),
                         !.plan = req.plan,
                         !.cc_info = Some(cc_info_of(remote.card))]
    IN IF remote.subscription = "CardError"
       THEN Response(c1, on_CardError(CardError_message), calls2, FALSE)
       ELSE IF remote.sync = "fault"
       THEN Response(c1, "500 APIConnectionError", calls3, TRUE)
       ELSE IF remote.status = "active"
       THEN view_save(activate(c2, remote.period_end), c1, "201", calls3, TRUE)
       ELSE view_save(payment_failed(c2), c1,
                      ValidationError("Payment could not be processed."),
                      calls3, TRUE)

\* Mutant: a subscription is enough, whatever the payment state.
can_cure_any_subscription(c) == c.subscription_id # None

\* There is a subscription and the payment state is requires_payment_method.
can_cure(c) ==
  c.subscription_id # None /\ c.payment_state = REQUIRES_PAYMENT_METHOD

\* req: [has_payment_method]; remote: [replace, card, invoice, period_end].
CureFailedCard_post(c, req, remote) ==
  IF ~req.has_payment_method
  THEN Response(c, ValidationError("No payment_method_id provided."), {}, FALSE)
  ELSE IF can_cure(c)
  THEN IF remote.replace = "CardError"
       THEN Response(c, on_CardError(CardError_message),
                     {"stripe_replace_card"}, FALSE)
       ELSE
         LET c1 == [c EXCEPT !.cc_info = Some(cc_info_of(remote.card))]
             calls == {"stripe_replace_card", "stripe_retry_latest_invoice"}
         IN IF remote.invoice = "CardError"
            THEN view_save(c1, c, on_CardError(CardError_message),
                           calls, FALSE)
            ELSE IF remote.invoice = "paid"
            THEN view_save(activate(c1, remote.period_end), c1, "201", calls,
                           FALSE)
            ELSE view_save(c1, c, "201", calls, FALSE)
  ELSE Response(c, ValidationError("You cannot cure a failed payment for this customer."),
                {}, FALSE)

\* Mutant: the cancellation takes effect at once and forgets the subscription.
cancel_subscription_immediate(c) ==
  IF c.payment_state = OFF
  THEN [ok |-> FALSE, customer |-> c, calls |-> {}]
  ELSE [ok |-> TRUE,
        customer |-> [c EXCEPT !.payment_state = OFF, !.subscription_id = None],
        calls |-> {"stripe_cancel_subscription"}]

\* Mutant: a cancellation is always accepted.
cancel_subscription_always(c) ==
  [ok |-> TRUE, customer |-> [c EXCEPT !.payment_state = OFF],
   calls |-> {"stripe_cancel_subscription"}]

\* Customer.cancel_subscription(immediate=False): nothing to cancel when the
\* payment state is off; otherwise the processor is told to cancel at the end
\* of the period and the payment state goes off.
cancel_subscription(c) ==
  IF c.payment_state = OFF
  THEN [ok |-> FALSE, customer |-> c, calls |-> {}]
  ELSE [ok |-> TRUE, customer |-> [c EXCEPT !.payment_state = OFF],
        calls |-> {"stripe_cancel_subscription"}]

CancelSubscription_post(c) ==
  LET r == cancel_subscription(c) IN
  IF ~r.ok
  THEN Response(c, ValidationError("No active subscription to cancel."), {}, FALSE)
  ELSE view_save(r.customer, c, "201", r.calls, FALSE)

\* Mutant: a canceled subscription can be reactivated after its period, too.
can_reactivate_off(c, t) ==
  c.payment_state = OFF /\ c.subscription_id # None

\* Mutant: the reactivation starts a period of its own.
reactivate_renews(c) ==
  [c EXCEPT !.payment_state = OK, !.current_period_end = None]

\* Mutant: a subscription that the processor has canceled within its period
\* can be reactivated, too.
can_reactivate_canceled(c, t) ==
  state(c, t) \in {"paid.will_cancel", "paid.canceled"}

\* There is an active subscription that will be canceled at the end of the
\* period.
can_reactivate(c, t) == state(c, t) = "paid.will_cancel"

reactivate(c) == [c EXCEPT !.payment_state = OK]

ReactivateSubscription_post(c, t) ==
  IF can_reactivate(c, t)
  THEN view_save(reactivate(c), c, "201",
                 {"stripe_reactivate_subscription"}, FALSE)
  ELSE Response(c, ValidationError("You cannot reactivate this subscription."),
                {}, FALSE)

\* Mutant: a subscription is enough, also one that is being canceled.
can_replace_any_subscription(c) == c.subscription_id # None

\* There is an active subscription.
can_replace(c) == c.subscription_id # None /\ c.payment_state # OFF

\* req: [has_payment_method]; remote: [replace, card].
ReplaceCard_post(c, req, remote) ==
  IF ~req.has_payment_method
  THEN Response(c, ValidationError("No payment_method_id provided."), {}, FALSE)
  ELSE IF can_replace(c)
  THEN IF remote.replace = "CardError"
       THEN Response(c, on_CardError(CardError_message),
                     {"stripe_replace_card"}, FALSE)
       ELSE view_save([c EXCEPT !.cc_info = Some(cc_info_of(remote.card))],
                      c, "201", {"stripe_replace_card"}, FALSE)
  ELSE Response(c, ValidationError("You cannot replace card for this customer."),
                {}, FALSE)

\* What the processor can answer.  A field that the answer does not carry
\* (the period end of a declined card) holds the first value of its set.
CreateRemote(cus, subscription, status, period_end, card, sync) ==
  [customer |-> cus, subscription |-> subscription, status |-> status,
   period_end |-> period_end, card |-> card, sync |-> sync]

CreateRemotes ==
  UNION {
    {CreateRemote(c, "CardError", "incomplete", 0, AmexCardWire, "ok"),
     CreateRemote(c, "created", "active", 0, AmexCardWire, "fault")}
      \cup {CreateRemote(c, "created", "active", e, k, "ok") :
              e \in PeriodEnds, k \in WireCards}
      \cup {CreateRemote(c, "created", "incomplete", 0, k, "ok") : k \in WireCards}
    : c \in {"none", "found", "created"}}

CureRemote(replace, card, invoice, period_end) ==
  [replace |-> replace, card |-> card, invoice |-> invoice,
   period_end |-> period_end]

CureRemotes ==
  {CureRemote("CardError", AmexCardWire, "open", 0)}
    \cup {CureRemote("ok", k, i, 0) : k \in WireCards, i \in {"CardError", "open"}}
    \cup {CureRemote("ok", k, "paid", e) : k \in WireCards, e \in PeriodEnds}

ReplaceRemotes == [replace : {"CardError", "ok"}, card : WireCards]

\* What the processor can answer at time t: the period of a subscription
\* that has just been created and is active ends after its creation.
CreateRemotesAt(t) ==
  {r \in CreateRemotes :
     (r.subscription = "created" /\ r.status = "active" /\ r.sync = "ok")
       => r.period_end > t}

\* The latest invoice of a subscription bills its current period, which ends
\* after the time the invoice is paid.
CureRemotesAt(t) ==
  {r \in CureRemotes : r.invoice = "paid" => r.period_end > t}

\* The input of a command as the last unit of work keeps it: the request, and
\* the processor's answers when the command got as far as asking for them.
CreateInput(req, remote, r) ==
  LET found == IF "stripe_create_customer" \in r.calls
               THEN remote.customer ELSE "unasked" IN
  IF "stripe_create_subscription" \in r.calls
  THEN [plan |-> req.plan, customer |-> found,
        subscription |-> remote.subscription,
        status |-> remote.status, period_end |-> remote.period_end,
        sync |-> remote.sync]
  ELSE [plan |-> req.plan, customer |-> found,
        subscription |-> "none", status |-> "none",
        period_end |-> 0, sync |-> "none"]

CureInput(req, remote, r) ==
  IF r.calls # {}
  THEN [has_payment_method |-> req.has_payment_method,
        replace |-> remote.replace, invoice |-> remote.invoice,
        period_end |-> remote.period_end]
  ELSE [has_payment_method |-> req.has_payment_method,
        replace |-> "none", invoice |-> "none", period_end |-> 0]

ReplaceInput(req, remote, r) ==
  [has_payment_method |-> req.has_payment_method,
   replace |-> IF r.calls # {} THEN remote.replace ELSE "none"]

----------------------------------------------------------------------------
(* Actions *)

\* The worker holds at most one event record at a time (task: "idle" without
\* one, then "new", "started", "returned"), and the commands run while it
\* holds none: units of work on one customer are serialised by the storage
\* layer.  A delivery does not read the customer, so an event that reaches the
\* worker late is a delivery made late.
Init ==
  /\ customer \in InitialCustomers
  /\ now = 0
  /\ event = <<>>
  /\ task = [pc |-> "idle", again |-> FALSE]
  /\ next_sub = 1
  /\ last = NoWork

\* Time passes.
Tick ==
  /\ now < MaxTime
  /\ now' = now + 1
  /\ UNCHANGED <<customer, event, task, next_sub, last>>

\* The webhook endpoint stores a delivered event as NEW.  While the worker
\* still holds the record it has processed, the delivery modelled is that of
\* the same document once more (again); any other document arrives after
\* the release.
Deliver ==
  /\ task.pc \in {"idle", "returned"}
  /\ \E ev \in DeliveredEvents :
       /\ task.pc = "returned" => content(event[1]) = content(ev)
       /\ event' = <<ev>>
       /\ task' = [pc |-> "new", again |-> task.pc = "returned"]
  /\ last' = Work("stripe_webhook", customer, now, "201", {}, {}, FALSE)
  /\ UNCHANGED <<customer, now, next_sub>>

\* process_stripe_event up to the first save: the event is PENDING.  It runs
\* on a new record, and again on a record it has processed (a retried task).
process_stripe_event_pending ==
  /\ task.pc \in {"new", "returned"}
  /\ event' = <<[event[1] EXCEPT !.status = Status_PENDING]>>
  /\ task' = [pc |-> "started",
              again |-> IF task.pc = "returned" THEN TRUE ELSE task.again]
  /\ UNCHANGED <<customer, now, next_sub, last>>

\* process_stripe_event from the dispatch to the save in the finally clause.
process_stripe_event ==
  /\ task.pc = "started"
  /\ LET ev == event[1]
         r  == dispatch(ev, customer, now)
     IN /\ customer' = r.customer
        /\ event' = <<[ev EXCEPT !.status = r.status, !.info = r.info]>>
        /\ task' = [pc |-> IF r.escaped THEN "raised" ELSE "returned",
                    again |-> FALSE]
        /\ last' = Work("process_stripe_event", customer, now, r.status, r.log,
                        {}, task.again)
  /\ UNCHANGED <<now, next_sub>>

\* The worker is done with the record.
release ==
  /\ task.pc = "returned"
  /\ event' = <<>>
  /\ task' = [pc |-> "idle", again |-> FALSE]
  /\ UNCHANGED <<customer, now, next_sub, last>>

\* A command's response is stored and recorded as the last unit of work.
Answer(op, r, input) ==
  /\ customer' = r.customer
  /\ next_sub' = IF r.created THEN next_sub + 1 ELSE next_sub
  /\ last' = [Work(op, customer, now, r.answer, {}, r.calls, FALSE)
                EXCEPT !.input = input]
  /\ UNCHANGED <<now, event, task>>

CreateSubscription ==
  /\ task.pc = "idle"
  /\ next_sub <= MaxSubs
  /\ \E req \in [plan : PlanTypes, lenient : BOOLEAN],
        remote \in CreateRemotesAt(now) :
       LET r == CreateSubscription_post(customer, now, next_sub, req, remote)
       IN Answer("CreateSubscription", r, CreateInput(req, remote, r))

CureFailedCard ==
  /\ task.pc = "idle"
  /\ \E req \in [has_payment_method : BOOLEAN],
        remote \in CureRemotesAt(now) :
       LET r == CureFailedCard_post(customer, req, remote)
       IN Answer("CureFailedCard", r, CureInput(req, remote, r))

CancelSubscription ==
  /\ task.pc = "idle"
  /\ Answer("CancelSubscription", CancelSubscription_post(customer), <<>>)

ReactivateSubscription ==
  /\ task.pc = "idle"
  /\ Answer("ReactivateSubscription",
            ReactivateSubscription_post(customer, now), <<>>)

ReplaceCard ==
  /\ task.pc = "idle"
  /\ \E req \in [has_payment_method : BOOLEAN], remote \in ReplaceRemotes :
       LET r == ReplaceCard_post(customer, req, remote)
       IN Answer("ReplaceCard", r, ReplaceInput(req, remote, r))

Next ==
  \/ Tick
  \/ Deliver
  \/ process_stripe_event_pending
  \/ process_stripe_event
  \/ release
  \/ CreateSubscription
  \/ CureFailedCard
  \/ CancelSubscription
  \/ ReactivateSubscription
  \/ ReplaceCard

Spec == Init /\ [][Next]_vars

\* CreateCheckoutSessionView.post: a redirect to the cancel URL with an error
\* message, or the processor's checkout session and a redirect to it.
\* plan: the type of the plan with the id posted.
CreateCheckoutSessionView_post(c, t, plan) ==
  IF plan # PAID_PUBLIC
  THEN [redirect |-> "CHECKOUT_CANCEL_URL", message |-> "Invalid billing plan.",
        calls |-> {}]
  ELSE IF state(c, t) \notin {"free_default.new", "free_default.canceled"}
  THEN [redirect |-> "CHECKOUT_CANCEL_URL",
        message |-> "User already has a subscription.", calls |-> {}]
  ELSE [redirect |-> "session.url", message |-> "",
        calls |-> {"stripe.checkout.Session.create"}]

CreateCheckoutSession ==
  /\ task.pc = "idle"
  /\ \E plan \in PlanTypes :
       LET r == CreateCheckoutSessionView_post(customer, now, plan)
       IN last' = [Work("CreateCheckoutSession", customer, now, r.redirect,
                        {}, r.calls, FALSE)
                     EXCEPT !.input = [plan |-> plan, message |-> r.message]]
  /\ UNCHANGED <<customer, now, event, task, next_sub>>

CheckoutNext ==
  \/ Next
  \/ CreateCheckoutSession

\* The program with the checkout page.
CheckoutSpec == Init /\ [][CheckoutNext]_vars

\* The program from a newly provisioned customer.
NewInit == Init /\ customer = NewCustomer

NewSpec == NewInit /\ [][Next]_vars

----------------------------------------------------------------------------
(* Reading a customer: the derived label and the limits *)

ReadInit ==
  /\ customer \in AllCustomers
  /\ now = 0
  /\ event = <<>>
  /\ task = [pc |-> "idle", again |-> FALSE]
  /\ next_sub = 1
  /\ last = NoWork

\* customer.state is read, and the note for it.
ReadState ==
  /\ last' = [Work("state", customer, now, state(customer, now), {}, {}, FALSE)
                EXCEPT !.input = [note |-> state_note(customer, now)]]
  /\ UNCHANGED <<customer, now, event, task, next_sub>>

\* customer.get_limit(name) is called, the tables holding some PlanLimits.
ReadLimit ==
  /\ \E name \in LimitNames \cup {"Bad Limit"}, table \in PlanLimitTables :
       last' = [Work("get_limit", customer, now, "value", {}, {}, FALSE)
                 EXCEPT !.input = [name |-> name, table |-> table,
                                   value |-> get_limit(customer, now, name,
                                                       table)]]
  /\ UNCHANGED <<customer, now, event, task, next_sub>>

ReadNext ==
  \/ Tick
  \/ ReadState
  \/ ReadLimit

ReadSpec == ReadInit /\ [][ReadNext]_vars

----------------------------------------------------------------------------
(* A canceled event and a reactivation on one customer, in either order *)

\* Customers whose subscription will be canceled at the end of its period.
WillCancelCustomers ==
  {[NewCustomer EXCEPT !.plan = PAID_PUBLIC, !.payment_state = OFF,
                       !.current_period_end = Some(fromtimestamp(e)),
                       !.subscription_id = Some(i),
                       !.customer_id = Some(OwnCustomerId),
                       !.cc_info = Some(cc_info_of(k))] :
     e \in PeriodEnds \ {0}, i \in SubIds, k \in WireCards}

\* last.input is the sequence of the units of work that have run.
RaceInit ==
  /\ customer \in WillCancelCustomers
  /\ now = 0
  /\ event = <<>>
  /\ task = [pc |-> "idle", again |-> FALSE]
  /\ next_sub = MaxSubs + 1
  /\ last = NoWork

Ran(op) == \E n \in DOMAIN last.input : last.input[n] = op

\* The canceled event of the customer's subscription is stored and
\* processed.
RaceCanceled ==
  /\ ~Ran("process_stripe_event")
  /\ customer.subscription_id # None
  /\ \E type \in SubscriptionEventTypes :
       LET ev == NewEvent(type, BasePayload
                            @@ (K_id :> customer.subscription_id[1])
                            @@ (K_status :> "canceled"))
           r == dispatch([ev EXCEPT !.status = Status_PENDING], customer, now)
       IN /\ customer' = r.customer
          /\ last' = [Work("process_stripe_event", customer, now, r.status,
                            r.log, {}, FALSE)
                        EXCEPT !.input = Append(last.input,
                                                "process_stripe_event")]
  /\ UNCHANGED <<now, event, task, next_sub>>

RaceReactivate ==
  /\ ~Ran("ReactivateSubscription")
  /\ LET r == ReactivateSubscription_post(customer, now)
     IN /\ customer' = r.customer
        /\ last' = [Work("ReactivateSubscription", customer, now, r.answer,
                          {}, r.calls, FALSE)
                      EXCEPT !.input = Append(last.input,
                                              "ReactivateSubscription")]
  /\ UNCHANGED <<now, event, task, next_sub>>

RaceNext ==
  \/ Tick
  \/ RaceCanceled
  \/ RaceReactivate

RaceSpec == RaceInit /\ [][RaceNext]_vars

----------------------------------------------------------------------------
(* Looking up the processor's customer of a user *)

MaxListed == 3

\* A customer the processor lists for the user's email, as MockStripeCustomer
\* builds it: whether its metadata has the user-pk key, and whether the value
\* it holds there is the user's pk.
ListedCustomer == [good_key : BOOLEAN, good_value : BOOLEAN]

ListedCustomers == UNION {[1..n -> ListedCustomer] : n \in 0..MaxListed}

MockStripeCustomer(good_key, good_value) ==
  [good_key |-> good_key, good_value |-> good_value]

\* The cases of test_get_customer: the customers listed and whether a
\* customer is expected back.
test_get_customer ==
  LET TT == MockStripeCustomer(TRUE, TRUE)
      TF == MockStripeCustomer(TRUE, FALSE)
      FF == MockStripeCustomer(FALSE, FALSE)
  IN {<< <<>>, "None">>,
      << <<TF>>, "None">>,
      << <<TF, TF>>, "None">>,
      << <<TT>>, "MockStripeCustomer">>,
      << <<FF>>, "MockStripeCustomer">>,
      << <<FF, FF>>, "MockStripeCustomer">>,
      << <<TT, TT>>, "MockStripeCustomer">>,
      << <<TT, TF>>, "MockStripeCustomer">>}

\* The metadata of the listed customer names another user.
other_user(listed_customer) ==
  listed_customer.good_key /\ ~listed_customer.good_value

\* Mutant: a customer with the user's email is enough.
stripe_get_customer_by_email(listed) ==
  IF listed = <<>> THEN {None} ELSE {Some(i) : i \in DOMAIN listed}

\* utils.stripe_get_customer(user): the results it can give for the
\* customers listed, None or the position of the customer returned.  Which
\* of several customers that do not name another user is returned is left
\* open.
stripe_get_customer(listed) ==
  LET mine == {i \in DOMAIN listed : ~other_user(listed[i])}
  IN IF mine = {} THEN {None} ELSE {Some(i) : i \in mine}

LookupInit ==
  /\ customer = NewCustomer
  /\ now = 0
  /\ event = <<>>
  /\ task = [pc |-> "idle", again |-> FALSE]
  /\ next_sub = 1
  /\ \E listed \in ListedCustomers :
       last = [NoWork EXCEPT !.input = [listed |-> listed]]

GetCustomer ==
  /\ last.op = "none"
  /\ \E result \in stripe_get_customer(last.input.listed) :
       last' = [Work("stripe_get_customer", customer, now, "returned", {},
                     {"stripe.Customer.list"}, FALSE)
                  EXCEPT !.input = [listed |-> last.input.listed,
                                    result |-> result]]
  /\ UNCHANGED <<customer, now, event, task, next_sub>>

LookupNext == GetCustomer

LookupSpec == LookupInit /\ [][LookupNext]_vars

----------------------------------------------------------------------------
(* Properties of the event processor *)

\* The worker has returned from process_stripe_event and still holds the
\* record: event[1] is the processed record, last.pre the customer before the
\* run, customer the customer after it.
EventRan == task.pc = "returned" /\ last.op = "process_stripe_event"

Payload == event[1].payload

\* The run was a renewal whose subscription reference matched the customer.
RenewalMatched ==
  /\ EventRan
  /\ event[1].type = "invoice.paid"
  /\ Has(Payload, K_billing_reason)
  /\ Payload[K_billing_reason] = "subscription_cycle"
  /\ Has(Payload, K_subscription)
  /\ last.pre.subscription_id = Some(Payload[K_subscription])
  /\ Has(Payload, K_period_end)

\* The run was a status change with the given status whose subscription
\* reference matched the customer.
StatusMatched(status) ==
  /\ EventRan
  /\ event[1].type \in SubscriptionEventTypes
  /\ Has(Payload, K_id)
  /\ last.pre.subscription_id = Some(Payload[K_id])
  /\ Has(Payload, K_status)
  /\ Payload[K_status] = status

\* C1: after any sequence of events and commands on a customer that starts
\* with payment_state off and no subscription id, the stored customer has a
\* subscription id whenever its payment_state is not off; and no write was
\* ever refused by the storage constraint to keep it so.
C1_PaymentStateConstraint ==
  /\ payment_state_constraint(customer)
  /\ last.answer # "500 IntegrityError"
  /\ event # <<>> => event[1].info # format_exc("IntegrityError")

C1_Witness ==
  /\ last.op = "ReactivateSubscription"
  /\ last.answer = "201"
  /\ customer.payment_state = OK
  /\ customer.subscription_id # None

\* C2: whatever the event record holds, process_stripe_event returns without
\* raising and the stored status is then PROCESSED or ERROR.
C2_TerminalStatus ==
  /\ task.pc # "raised"
  /\ task.pc = "returned" => event[1].status \in Terminal

C2_Witness ==
  /\ EventRan
  /\ event[1].type = "customer.subscription.deleted"
  /\ ~Has(Payload, K_status)
  /\ event[1].status = Status_ERROR
  /\ event[1].info = format_exc("KeyError")

\* C3 as stated: a matched renewal sets current_period_end to the period end
\* of the event, changes nothing else and ends PROCESSED, and a customer that
\* was paid.paying is paid.paying after it.
C3_Original ==
  RenewalMatched =>
    /\ customer = [last.pre EXCEPT
                     !.current_period_end = Some(fromtimestamp(Payload[K_period_end]))]
    /\ event[1].status = Status_PROCESSED
    /\ state(last.pre, last.at) = "paid.paying"
         => state(customer, last.at) = "paid.paying"

\* C3 as amended: the same, the customer being paid.paying after the run for
\* as long as the period end that the event carried is in the future.
C3_Renewal ==
  RenewalMatched =>
    /\ customer = [last.pre EXCEPT
                     !.current_period_end = Some(fromtimestamp(Payload[K_period_end]))]
    /\ event[1].status = Status_PROCESSED
    /\ (state(last.pre, last.at) = "paid.paying"
          /\ Payload[K_period_end] > now)
         => state(customer, now) = "paid.paying"

C3_Witness ==
  /\ RenewalMatched
  /\ state(last.pre, last.at) = "paid.paying"
  /\ now > last.at
  /\ Payload[K_period_end] > now
  /\ last.pre.current_period_end # Some(fromtimestamp(Payload[K_period_end]))
  /\ customer.current_period_end = Some(fromtimestamp(Payload[K_period_end]))

\* C4: a canceled status event for a paid customer clears subscription_id,
\* sets payment_state off, leaves current_period_end and ends PROCESSED; from
\* then on the customer is paid.canceled while current_period_end is in the
\* future and free_default.canceled once it has passed.
C4_Canceled ==
  (StatusMatched("canceled") /\ last.pre.plan = PAID_PUBLIC) =>
    /\ customer.subscription_id = None
    /\ customer.payment_state = OFF
    /\ customer.current_period_end = last.pre.current_period_end
    /\ event[1].status = Status_PROCESSED
    /\ customer.current_period_end # None =>
         state(customer, now) =
           IF customer.current_period_end[1].timestamp > now
           THEN "paid.canceled" ELSE "free_default.canceled"

C4_Witness ==
  /\ StatusMatched("canceled")
  /\ last.pre.plan = PAID_PUBLIC
  /\ state(last.pre, last.at) = "paid.paying"
  /\ state(customer, last.at) = "paid.canceled"
  /\ state(customer, now) = "free_default.canceled"

\* C5: a run that processes the content the run before it processed leaves
\* the customer as the first run left it.
C5_Idempotent ==
  (EventRan /\ last.repeat /\ event[1].type \in RecognizedTypes)
    => customer = last.pre

C5_Witness ==
  /\ RenewalMatched
  /\ last.repeat
  /\ event[1].status = Status_PROCESSED
  /\ customer.current_period_end = Some(fromtimestamp(Payload[K_period_end]))

\* C6: an event of an unrecognized type ends ERROR with an info that names
\* the type, and the customer is as before.
C6_Unrecognized ==
  (EventRan /\ event[1].type \notin RecognizedTypes) =>
    /\ event[1].status = Status_ERROR
    /\ event[1].info =
         "StripeEvent type '" \o event[1].type \o "' not recognized."
    /\ customer = last.pre

C6_Witness ==
  /\ EventRan
  /\ event[1].type = "bad.type"
  /\ event[1].status = Status_ERROR
  /\ customer.payment_state = OK

\* The run looked a customer up by a reference that matches no customer.
LookupMissed ==
  /\ EventRan
  /\ \/ /\ event[1].type = "invoice.paid"
        /\ Has(Payload, K_billing_reason)
        /\ Payload[K_billing_reason] = "subscription_cycle"
        /\ Has(Payload, K_subscription)
        /\ last.pre.subscription_id # Some(Payload[K_subscription])
     \/ /\ event[1].type \in SubscriptionEventTypes
        /\ Has(Payload, K_id)
        /\ last.pre.subscription_id # Some(Payload[K_id])
     \/ /\ event[1].type = "payment_method.automatically_updated"
        /\ Has(Payload, K_customer)
        /\ last.pre.customer_id # Some(Payload[K_customer])

\* C7: a renewal, a status change or a card update whose reference matches no
\* customer ends ERROR with a diagnostic in info, and the customer is as
\* before.
C7_LookupFails ==
  LookupMissed =>
    /\ event[1].status = Status_ERROR
    /\ event[1].info # ""
    /\ customer = last.pre

C7_Witness ==
  /\ LookupMissed
  /\ event[1].type = "invoice.paid"
  /\ Has(Payload, K_period_end)
  /\ last.pre.subscription_id # None
  /\ event[1].status = Status_ERROR
  /\ event[1].info = format_exc("DoesNotExist")

\* C8: an invoice.paid event with a billing_reason other than
\* subscription_cycle changes nothing and ends PROCESSED, matching
\* subscription reference or not.
C8_NotRenewal ==
  (/\ EventRan
   /\ event[1].type = "invoice.paid"
   /\ Has(Payload, K_billing_reason)
   /\ Payload[K_billing_reason] # "subscription_cycle") =>
    /\ customer = last.pre
    /\ event[1].status = Status_PROCESSED

C8_Witness ==
  /\ EventRan
  /\ event[1].type = "invoice.paid"
  /\ Has(Payload, K_billing_reason)
  /\ Payload[K_billing_reason] = "subscription_create"
  /\ Has(Payload, K_subscription)
  /\ last.pre.subscription_id = Some(Payload[K_subscription])
  /\ event[1].status = Status_PROCESSED

\* C9: a past_due status event for a found customer sets payment_state to
\* requires_payment_method, leaves subscription_id and current_period_end and
\* ends PROCESSED; a customer that was paid.paying is then
\* paid.past_due.requires_payment_method.
C9_PastDue ==
  StatusMatched("past_due") =>
    /\ customer.payment_state = REQUIRES_PAYMENT_METHOD
    /\ customer.subscription_id = last.pre.subscription_id
    /\ customer.current_period_end = last.pre.current_period_end
    /\ event[1].status = Status_PROCESSED
    /\ state(last.pre, last.at) = "paid.paying"
         => state(customer, last.at) = "paid.past_due.requires_payment_method"

C9_Witness ==
  /\ StatusMatched("past_due")
  /\ state(last.pre, last.at) = "paid.paying"
  /\ state(customer, last.at) = "paid.past_due.requires_payment_method"
  /\ event[1].status = Status_PROCESSED

\* C10: an incomplete_expired status event for a found customer clears
\* subscription_id, sets payment_state off and ends PROCESSED whatever the
\* customer's state was; a state other than
\* free_default.incomplete.requires_payment_method adds an error to the log
\* and nothing else.
C10_IncompleteExpired ==
  StatusMatched("incomplete_expired") =>
    /\ customer = [last.pre EXCEPT !.subscription_id = None,
                                   !.payment_state = OFF]
    /\ event[1].status = Status_PROCESSED
    /\ "error" \in last.log <=>
         state(last.pre, last.at)
           # "free_default.incomplete.requires_payment_method"

C10_Witness ==
  /\ StatusMatched("incomplete_expired")
  /\ state(last.pre, last.at) = "paid.paying"
  /\ "error" \in last.log
  /\ event[1].status = Status_PROCESSED
  /\ customer.subscription_id = None
  /\ customer.payment_state = OFF

\* C11: a status event whose status is none of past_due, canceled and
\* incomplete_expired leaves the found customer as it was, writes a note to
\* the event's info and ends PROCESSED.
C11_NotActionable ==
  \A status \in SubscriptionStatuses \
               {"past_due", "canceled", "incomplete_expired"} :
    StatusMatched(status) =>
      /\ customer = last.pre
      /\ event[1].info # ""
      /\ event[1].info =
           "Payload 'status' is not actionable. No action was taken."
      /\ event[1].status = Status_PROCESSED

C11_Witness ==
  /\ StatusMatched("unpaid")
  /\ customer.payment_state = OK
  /\ customer.subscription_id # None
  /\ event[1].status = Status_PROCESSED
  /\ event[1].info # ""

\* The run was a card update whose customer reference matched the customer
\* and whose payload has a card.
CardMatched ==
  /\ EventRan
  /\ event[1].type = "payment_method.automatically_updated"
  /\ Has(Payload, K_customer)
  /\ last.pre.customer_id = Some(Payload[K_customer])
  /\ Has(Payload, K_card)

\* C12: a card update for a found customer replaces cc_info by the brand,
\* last4, exp_month and exp_year of the payload's card and nothing else (no
\* other key of the card, nothing of the old cc_info), leaves every other
\* attribute and ends PROCESSED; a card that has the four keys gives a cc_info
\* of exactly the four.
C12_CardUpdated ==
  CardMatched =>
    LET card == Payload[K_card] IN
    /\ customer = [last.pre EXCEPT !.cc_info =
                     Some([k \in DOMAIN card \cap CardKeys |-> card[k]])]
    /\ CardKeys \subseteq DOMAIN card => DOMAIN customer.cc_info[1] = CardKeys
    /\ event[1].status = Status_PROCESSED

C12_Witness ==
  /\ CardMatched
  /\ Payload[K_card] = AmexCardWire
  /\ last.pre.cc_info # None
  /\ last.pre.cc_info[1].brand = "visa"
  /\ customer.cc_info # None
  /\ DOMAIN customer.cc_info[1] = CardKeys
  /\ customer.cc_info[1].brand = "amex"
  /\ customer.subscription_id # None

----------------------------------------------------------------------------
(* Properties of the subscription commands *)

\* The last unit of work was the command op: last.pre is the customer before
\* it, customer the customer after it, last.input what it was given.
CommandRan(op) == last.op = op

\* C13: Cancel on a customer whose payment_state is not off answers success,
\* sets payment_state off and leaves everything else; a customer that was
\* paid.paying is paid.will_cancel from then until current_period_end.
C13_Cancel ==
  (CommandRan("CancelSubscription") /\ last.pre.payment_state # OFF) =>
    /\ last.answer = "201"
    /\ customer = [last.pre EXCEPT !.payment_state = OFF]
    /\ state(last.pre, last.at) = "paid.paying" =>
         /\ state(customer, last.at) = "paid.will_cancel"
         /\ customer.current_period_end[1].timestamp > now
              => state(customer, now) = "paid.will_cancel"

C13_Witness ==
  /\ CommandRan("CancelSubscription")
  /\ state(last.pre, last.at) = "paid.paying"
  /\ now > last.at
  /\ state(customer, now) = "paid.will_cancel"
  /\ customer.subscription_id = last.pre.subscription_id

\* C14: Cancel on a customer whose payment_state is off fails with "No active
\* subscription to cancel.", calls no processor operation and leaves the
\* customer as it was.
C14_CancelOff ==
  (CommandRan("CancelSubscription") /\ last.pre.payment_state = OFF) =>
    /\ last.answer = ValidationError("No active subscription to cancel.")
    /\ last.calls = {}
    /\ customer = last.pre

C14_Witness ==
  /\ CommandRan("CancelSubscription")
  /\ state(last.pre, last.at) = "paid.will_cancel"
  /\ last.answer = ValidationError("No active subscription to cancel.")
  /\ customer = last.pre

\* C15: Reactivate succeeds exactly when the customer is paid.will_cancel; in
\* every other state it fails with a ValidationError, calls no processor
\* operation and leaves the customer as it was.
C15_ReactivateOnly ==
  CommandRan("ReactivateSubscription") =>
    /\ last.answer = "201" <=> state(last.pre, last.at) = "paid.will_cancel"
    /\ state(last.pre, last.at) # "paid.will_cancel" =>
         /\ last.answer =
              ValidationError("You cannot reactivate this subscription.")
         /\ last.calls = {}
         /\ customer = last.pre

C15_Witness ==
  /\ CommandRan("ReactivateSubscription")
  /\ last.pre.payment_state = OFF
  /\ last.pre.subscription_id # None
  /\ state(last.pre, last.at) = "free_default.canceled"
  /\ last.answer = ValidationError("You cannot reactivate this subscription.")

\* C16: a successful Reactivate sets payment_state ok and leaves everything
\* else, so that the customer is paid.paying, until current_period_end.
C16_Reactivated ==
  (CommandRan("ReactivateSubscription") /\ last.answer = "201") =>
    /\ customer = [last.pre EXCEPT !.payment_state = OK]
    /\ last.calls = {"stripe_reactivate_subscription"}
    /\ state(customer, last.at) = "paid.paying"
    /\ (customer.current_period_end # None
          /\ customer.current_period_end[1].timestamp > now)
         => state(customer, now) = "paid.paying"

C16_Witness ==
  /\ CommandRan("ReactivateSubscription")
  /\ last.answer = "201"
  /\ state(last.pre, last.at) = "paid.will_cancel"
  /\ customer.current_period_end = last.pre.current_period_end
  /\ state(customer, now) = "paid.paying"

\* Create subscription got a subscription from the processor, and the calls
\* after it went through.
SubscriptionCreated ==
  /\ CommandRan("CreateSubscription")
  /\ last.input.subscription = "created"
  /\ last.input.sync = "ok"

\* C17: when the processor returns an active subscription, Create stores its
\* id, the requested plan, payment_state ok and the processor's period end,
\* and answers success; the customer is paid.paying, until that period end.
C17_CreateActive ==
  (SubscriptionCreated /\ last.input.status = "active") =>
    /\ last.answer = "201"
    /\ customer.subscription_id = Some(next_sub - 1)
    /\ customer.subscription_id # last.pre.subscription_id
    /\ customer.plan = last.input.plan
    /\ customer.payment_state = OK
    /\ customer.current_period_end =
         Some(fromtimestamp(last.input.period_end))
    /\ state(customer, last.at) = "paid.paying"
    /\ last.input.period_end > now => state(customer, now) = "paid.paying"

C17_Witness ==
  /\ SubscriptionCreated
  /\ last.input.status = "active"
  /\ state(last.pre, last.at) = "free_default.canceled"
  /\ last.pre.current_period_end # customer.current_period_end
  /\ last.answer = "201"
  /\ state(customer, now) = "paid.paying"

Refusals ==
  {ValidationError("Billing plan does not exist."),
   ValidationError("User already has a subscription.")}

\* C19: Create is refused, without a call to the processor and without a
\* change to the customer, when the plan is not a paid public plan ("plan
\* does not exist") and when the customer is paid.paying or paid.will_cancel
\* ("has a subscription"); from free_default.new and free_default.canceled
\* it is not refused.
C19_CreateRefused ==
  CommandRan("CreateSubscription") =>
    LET label == state(last.pre, last.at)
        subscribed == label \in {"paid.paying", "paid.will_cancel"}
    IN /\ (last.input.plan # PAID_PUBLIC \/ subscribed) =>
            /\ last.answer \in Refusals
            /\ last.calls = {}
            /\ customer = last.pre
       /\ (last.input.plan # PAID_PUBLIC /\ ~subscribed) =>
            last.answer = ValidationError("Billing plan does not exist.")
       /\ (last.input.plan = PAID_PUBLIC /\ subscribed) =>
            last.answer = ValidationError("User already has a subscription.")
       /\ (last.input.plan = PAID_PUBLIC
             /\ label \in {"free_default.new", "free_default.canceled"}) =>
            /\ last.answer \notin Refusals
            /\ last.calls # {}

C19_Witness ==
  /\ CommandRan("CreateSubscription")
  /\ last.input.plan = PAID_PUBLIC
  /\ state(last.pre, last.at) = "paid.will_cancel"
  /\ last.answer = ValidationError("User already has a subscription.")
  /\ customer = last.pre

\* C20: Cure failed card goes on to the processor only for a customer with a
\* subscription id and payment_state requires_payment_method; for every other
\* customer it fails with a ValidationError, calls no processor operation and
\* leaves the customer as it was.
C20_CureOnly ==
  CommandRan("CureFailedCard") =>
    LET curable == /\ last.pre.subscription_id # None
                   /\ last.pre.payment_state = REQUIRES_PAYMENT_METHOD
    IN /\ last.calls # {} => curable
       /\ ~curable =>
            /\ last.answer \in
                 {ValidationError("No payment_method_id provided."),
                  ValidationError(
                    "You cannot cure a failed payment for this customer.")}
            /\ last.calls = {}
            /\ customer = last.pre
       /\ (~curable /\ last.input.has_payment_method) =>
            last.answer = ValidationError(
              "You cannot cure a failed payment for this customer.")
       /\ (curable /\ last.input.has_payment_method) =>
            "stripe_replace_card" \in last.calls

C20_Witness ==
  /\ CommandRan("CureFailedCard")
  /\ last.input.has_payment_method
  /\ state(last.pre, last.at) = "paid.paying"
  /\ last.answer =
       ValidationError("You cannot cure a failed payment for this customer.")
  /\ customer = last.pre

\* C21: when the retried invoice comes back paid, Cure failed card sets
\* payment_state ok and current_period_end to the period end of the invoice,
\* leaves subscription_id and plan, and answers success; the customer is
\* paid.paying, until that period end.
C21_Cured ==
  (CommandRan("CureFailedCard") /\ last.input.invoice = "paid") =>
    /\ last.answer = "201"
    /\ customer.payment_state = OK
    /\ customer.current_period_end =
         Some(fromtimestamp(last.input.period_end))
    /\ customer.subscription_id = last.pre.subscription_id
    /\ customer.plan = last.pre.plan
    /\ customer.customer_id = last.pre.customer_id
    /\ state(customer, last.at) = "paid.paying"
    /\ last.input.period_end > now => state(customer, now) = "paid.paying"

C21_Witness ==
  /\ CommandRan("CureFailedCard")
  /\ last.input.invoice = "paid"
  /\ state(last.pre, last.at) = "paid.past_due.requires_payment_method"
  /\ last.pre.current_period_end # customer.current_period_end
  /\ now > last.at
  /\ state(customer, now) = "paid.paying"

\* C22: Replace card goes on to the processor only for a customer with a
\* subscription id and a payment_state other than off, and then changes
\* nothing but cc_info; for every other customer it fails with a
\* ValidationError, calls no processor operation and leaves the customer.
C22_ReplaceOnly ==
  CommandRan("ReplaceCard") =>
    LET replaceable == /\ last.pre.subscription_id # None
                       /\ last.pre.payment_state # OFF
    IN /\ last.calls # {} => replaceable
       /\ customer = [last.pre EXCEPT !.cc_info = customer.cc_info]
       /\ ~replaceable =>
            /\ last.answer \in
                 {ValidationError("No payment_method_id provided."),
                  ValidationError("You cannot replace card for this customer.")}
            /\ last.calls = {}
            /\ customer = last.pre
       /\ (~replaceable /\ last.input.has_payment_method) =>
            last.answer =
              ValidationError("You cannot replace card for this customer.")
       /\ (replaceable /\ last.input.has_payment_method) =>
            /\ last.calls = {"stripe_replace_card"}
            /\ last.input.replace = "ok" => last.answer = "201"

C22_Witness ==
  /\ CommandRan("ReplaceCard")
  /\ last.input.has_payment_method
  /\ state(last.pre, last.at) = "paid.will_cancel"
  /\ last.answer =
       ValidationError("You cannot replace card for this customer.")
  /\ customer = last.pre

\* The processor raised a card error during the command.
CardErrorRaised ==
  \/ CommandRan("CreateSubscription") /\ last.input.subscription = "CardError"
  \/ CommandRan("CureFailedCard")
       /\ (last.input.replace = "CardError" \/ last.input.invoice = "CardError")
  \/ CommandRan("ReplaceCard") /\ last.input.replace = "CardError"

----------------------------------------------------------------------------
(* Properties of the derived label and of the limits *)

ContactSupport ==
  "There is an issue with your subscription. Please contact support."

\* C24: for every plan type, payment state, period end (none, to come,
\* passed) and subscription id (none, some), Customer.state is one of the
\* eleven labels that ProfileView.state_note names, or unknown, and it is
\* unknown exactly when state_note falls through to its last branch.
C24_StateTotal ==
  last.op = "state" =>
    /\ last.answer \in Labels \cup {"unknown"}
    /\ Cardinality(Labels) = 11
    /\ last.answer = "unknown" <=> last.input.note = ContactSupport

C24_Witness ==
  /\ last.op = "state"
  /\ last.pre.plan = PAID_PUBLIC
  /\ last.pre.payment_state = PaymentState_ERROR
  /\ last.pre.current_period_end # None
  /\ last.pre.current_period_end[1].timestamp > last.at
  /\ last.answer = "unknown"

\* get_limit was called with the name of a Limit.
LimitRead == last.op = "get_limit" /\ last.input.name \in LimitNames

\* C25: get_limit gives the PlanLimit of the effective plan for the name if
\* there is one and the default of the Limit otherwise; the effective plan is
\* the free default plan for a paid plan with no period end or one that has
\* passed and for a staff plan whose period end has passed, and the
\* customer's own plan otherwise.
C25_GetLimit ==
  LimitRead =>
    LET c == last.pre
        passed == /\ c.current_period_end # None
                  /\ c.current_period_end[1].timestamp <= last.at
        plan == IF \/ c.plan = PAID_PUBLIC
                      /\ (c.current_period_end = None \/ passed)
                   \/ c.plan = FREE_PRIVATE /\ passed
                THEN FREE_DEFAULT ELSE c.plan
        own == last.input.table[<<plan, last.input.name>>]
    IN last.input.value =
         IF own # None THEN own ELSE Some(LimitDefault[last.input.name])

C25_Witness ==
  /\ LimitRead
  /\ last.pre.plan = FREE_PRIVATE
  /\ last.pre.current_period_end = None
  /\ last.input.table[<<FREE_DEFAULT, last.input.name>>] # None
  /\ last.input.table[<<FREE_PRIVATE, last.input.name>>] # None
  /\ last.input.value = last.input.table[<<FREE_PRIVATE, last.input.name>>]
  /\ last.input.value # last.input.table[<<FREE_DEFAULT, last.input.name>>]

\* C26: for a paid customer whose period end has passed, get_limit gives what
\* it gives a customer on the free default plan: the PlanLimit of the free
\* default plan or the default, never the PlanLimit of the paid plan.
C26_ExpiredPaid ==
  (/\ LimitRead
   /\ last.pre.plan = PAID_PUBLIC
   /\ last.pre.current_period_end # None
   /\ last.pre.current_period_end[1].timestamp <= last.at) =>
    LET free == last.input.table[<<FREE_DEFAULT, last.input.name>>] IN
    /\ last.input.value =
         get_limit([last.pre EXCEPT !.plan = FREE_DEFAULT], last.at,
                   last.input.name, last.input.table)
    /\ last.input.value =
         IF free # None THEN free ELSE Some(LimitDefault[last.input.name])

C26_Witness ==
  /\ LimitRead
  /\ last.pre.plan = PAID_PUBLIC
  /\ last.pre.current_period_end # None
  /\ last.pre.current_period_end[1].timestamp = last.at
  /\ last.input.table[<<PAID_PUBLIC, last.input.name>>] # None
  /\ last.input.table[<<FREE_DEFAULT, last.input.name>>] = None
  /\ last.input.value = Some(LimitDefault[last.input.name])

----------------------------------------------------------------------------
(* Properties of the event status and of the label over time *)

\* C27: the stored status of an event record only moves from NEW to PENDING
\* and from PENDING to PROCESSED or ERROR; a record that is PROCESSED or
\* ERROR is not moved back to PENDING when process_stripe_event runs on it
\* again.  (A step that stores another record, as NEW, is not a move of this
\* record.)
C27_StatusMoves ==
  [][(event # <<>> /\ event' # <<>> /\ task'.pc # "new") =>
       LET old == event[1].status
           new == event'[1].status
       IN \/ new = old
          \/ old = Status_NEW /\ new = Status_PENDING
          \/ old = Status_PENDING /\ new \in Terminal]_vars

\* The stored customer is on the paid plan with payment off and a period end
\* that is still to come.
PaidOffInPeriod ==
  /\ customer.plan = PAID_PUBLIC
  /\ customer.payment_state = OFF
  /\ customer.current_period_end # None
  /\ ~expired(customer, now)

\* C28 as stated: a paid customer with payment off and a period end still to
\* come is paid.will_cancel, whatever its subscription id is.
C28_Original == PaidOffInPeriod => state(customer, now) = "paid.will_cancel"

\* C28: a paid customer with payment off and a period end still to come is
\* paid.will_cancel when it has a subscription id and paid.canceled when it
\* has none.
C28_WillCancel ==
  PaidOffInPeriod =>
    state(customer, now) = IF customer.subscription_id # None
                           THEN "paid.will_cancel" ELSE "paid.canceled"

C28_Witness ==
  /\ StatusMatched("canceled")
  /\ state(last.pre, last.at) = "paid.will_cancel"
  /\ PaidOffInPeriod
  /\ customer.subscription_id = None
  /\ state(customer, now) = "paid.canceled"

\* C29: an incomplete_expired status event applied to a customer in
\* free_default.incomplete.requires_payment_method leaves payment_state off,
\* no subscription id and no period end, and the customer is then
\* free_default.canceled.incomplete, not free_default.new.
C29_SignupExpired ==
  (/\ StatusMatched("incomplete_expired")
   /\ state(last.pre, last.at)
        = "free_default.incomplete.requires_payment_method") =>
    /\ last.pre.plan = PAID_PUBLIC
    /\ customer.payment_state = OFF
    /\ customer.subscription_id = None
    /\ customer.current_period_end = None
    /\ state(customer, now) = "free_default.canceled.incomplete"

C29_Witness ==
  /\ StatusMatched("incomplete_expired")
  /\ state(last.pre, last.at)
       = "free_default.incomplete.requires_payment_method"
  /\ "error" \notin last.log
  /\ now > last.at
  /\ state(customer, now) = "free_default.canceled.incomplete"

\* C30: a paid customer with payment off and a period end has a paid label at
\* every instant before the period end and is free_default.canceled from the
\* instant of the period end on; and while no event or command writes the
\* customer, a customer that is free_default.canceled stays so.
C30_TimeAlone ==
  /\ [](  (/\ customer.plan = PAID_PUBLIC
           /\ customer.payment_state = OFF
           /\ customer.current_period_end # None) =>
          IF now < customer.current_period_end[1].timestamp
          THEN state(customer, now) \in {"paid.will_cancel", "paid.canceled"}
          ELSE state(customer, now) = "free_default.canceled")
  /\ [][(/\ customer' = customer
         /\ state(customer, now) = "free_default.canceled") =>
          state(customer', now') = "free_default.canceled"]_vars

C30_Witness ==
  /\ CommandRan("CancelSubscription")
  /\ customer = [last.pre EXCEPT !.payment_state = OFF]
  /\ state(customer, last.at) = "paid.will_cancel"
  /\ last.at < now
  /\ now = customer.current_period_end[1].timestamp
  /\ state(customer, now) = "free_default.canceled"

----------------------------------------------------------------------------
(* Properties of the processor calls of the commands *)

\* C31: Create subscription on a customer that has a customer_id asks for no
\* processor customer and leaves the customer_id; without one, a record found
\* for the user is used and none is created, and one is created only when
\* none is found; when the processor gives no customer the request is
\* refused with a validation error before any subscription is created.
C31_RemoteCustomer ==
  CommandRan("CreateSubscription") =>
    /\ last.pre.customer_id # None =>
         /\ last.calls \cap {"stripe_create_customer", "stripe.Customer.list",
                             "stripe.Customer.create"} = {}
         /\ customer.customer_id = last.pre.customer_id
    /\ last.input.customer = "found" =>
         /\ "stripe.Customer.create" \notin last.calls
         /\ customer.customer_id # None
    /\ "stripe.Customer.create" \in last.calls =>
         /\ last.pre.customer_id = None
         /\ last.input.customer \in {"created", "none"}
    /\ last.input.customer = "none" =>
         /\ last.answer
              = ValidationError("These was a problem connecting to Stripe.")
         /\ "stripe_create_subscription" \notin last.calls
         /\ customer = last.pre

C31_Witness ==
  /\ CommandRan("CreateSubscription")
  /\ last.pre.customer_id = None
  /\ last.input.customer = "found"
  /\ "stripe.Customer.list" \in last.calls
  /\ "stripe.Customer.create" \notin last.calls
  /\ "stripe_create_subscription" \in last.calls
  /\ last.answer = "201"

C37_SubscriptionKept ==
  (CommandRan("CreateSubscription") /\ last.input.subscription = "created") =>
    customer.subscription_id = Some(next_sub - 1)

\* C38: whenever Cure failed card answers success, the stored customer has
\* payment_state ok and a period end.
C38_CureSuccess ==
  (CommandRan("CureFailedCard") /\ last.answer = "201") =>
    /\ customer.payment_state = OK
    /\ customer.current_period_end # None

----------------------------------------------------------------------------
(* Properties of events that fail or arrive late *)

\* C33: a run of process_stripe_event that leaves the event in ERROR has
\* changed no attribute of the customer; the customer is written only in
\* runs that end PROCESSED.
C33_ErrorWritesNothing ==
  EventRan =>
    /\ event[1].status = Status_ERROR => customer = last.pre
    /\ customer # last.pre => event[1].status = Status_PROCESSED

\* A renewal found its customer and failed on the invoice's period.
C33_Witness ==
  /\ EventRan
  /\ event[1].type = "invoice.paid"
  /\ Has(Payload, K_billing_reason)
  /\ Payload[K_billing_reason] = "subscription_cycle"
  /\ Has(Payload, K_subscription)
  /\ last.pre.subscription_id = Some(Payload[K_subscription])
  /\ ~Has(Payload, K_period_end)
  /\ last.pre.current_period_end # None
  /\ event[1].status = Status_ERROR
  /\ customer = last.pre

\* The run was a renewal or a status event that carried the reference ref.
Carried(ref) ==
  /\ EventRan
  /\ \/ /\ event[1].type = "invoice.paid"
        /\ Has(Payload, K_billing_reason)
        /\ Payload[K_billing_reason] = "subscription_cycle"
        /\ Has(Payload, K_subscription)
        /\ Payload[K_subscription] = ref
     \/ /\ event[1].type \in SubscriptionEventTypes
        /\ Has(Payload, K_id)
        /\ Payload[K_id] = ref

\* C34: a renewal or status event that carries a subscription reference
\* which was handed out before and is not the customer's any more (cleared by
\* a canceled or incomplete_expired event, and never handed out again) ends
\* in ERROR and changes no attribute of the customer: a late past_due leaves
\* the payment state and a late renewal leaves the period end.
C34_LateEvent ==
  \A ref \in SubIds :
    (/\ Carried(ref)
     /\ ref < next_sub
     /\ last.pre.subscription_id # Some(ref)) =>
      /\ event[1].status = Status_ERROR
      /\ customer = last.pre
      /\ customer.payment_state = last.pre.payment_state
      /\ customer.current_period_end = last.pre.current_period_end

\* A past_due event for the only subscription handed out reaches a customer
\* on the paid plan whose subscription id an event has cleared, within the
\* period paid for.
C34_Witness ==
  /\ Carried(1)
  /\ next_sub = 2
  /\ Has(Payload, K_status)
  /\ Payload[K_status] = "past_due"
  /\ last.pre.plan = PAID_PUBLIC
  /\ last.pre.subscription_id = None
  /\ last.pre.payment_state = OFF
  /\ state(last.pre, last.at) = "paid.canceled"
  /\ ~last.repeat
  /\ event[1].status = Status_ERROR
  /\ customer = last.pre

\* C35: a canceled event and a reactivation of a customer that is
\* paid.will_cancel, run one after the other in either order, leave the
\* customer without a subscription id and with payment_state off; a
\* reactivation that comes second is refused; and after each of the two the
\* customer has a subscription id if its payment_state is not off.
C35_EitherOrder ==
  /\ payment_state_constraint(customer)
  /\ Ran("process_stripe_event") =>
       /\ customer.subscription_id = None
       /\ customer.payment_state = OFF
  /\ last.input = <<"process_stripe_event", "ReactivateSubscription">> =>
       /\ last.answer
            = ValidationError("You cannot reactivate this subscription.")
       /\ last.calls = {}
       /\ customer = last.pre

C35_Witness ==
  /\ last.input = <<"ReactivateSubscription", "process_stripe_event">>
  /\ last.pre.payment_state = OK
  /\ last.pre.subscription_id # None
  /\ last.answer = Status_PROCESSED
  /\ customer.subscription_id = None
  /\ customer.payment_state = OFF

----------------------------------------------------------------------------
(* Properties of what a customer is shown and offered *)

\* C36: from a newly provisioned customer, whatever commands and events run
\* and however time passes, the label is never unknown and state_note never
\* gives the contact-support message.
C36_NeverUnknown ==
  /\ state(customer, now) # "unknown"
  /\ state_note(customer, now) # ContactSupport

C36_Witness ==
  /\ EventRan
  /\ last.pre.plan = PAID_PUBLIC
  /\ state(last.pre, last.at) = "paid.past_due.requires_payment_method"
  /\ customer = last.pre
  /\ state(customer, now) = "free_default.past_due.requires_payment_method"
  /\ state_note(customer, now)
       = "There is a problem with your credit card. Please provide a new one or try again."

CannotCure ==
  ValidationError("You cannot cure a failed payment for this customer.")

\* C39: in every reachable state, a command that the profile page offers
\* passes its precondition check: Cancel when can_cancel, Reactivate when
\* can_reactivate, and Cure failed card when requires_payment_method.
C39_OfferedCommandsPass ==
  LET ctx == get_context_data(customer, now) IN
  /\ ctx.can_cancel =>
       /\ cancel_subscription(customer).ok
       /\ CancelSubscription_post(customer).answer = "201"
  /\ ctx.can_reactivate =>
       /\ can_reactivate(customer, now)
       /\ ReactivateSubscription_post(customer, now).answer = "201"
  /\ ctx.requires_payment_method =>
       /\ can_cure(customer)
       /\ \A remote \in CureRemotesAt(now) :
            CureFailedCard_post(customer, [has_payment_method |-> TRUE],
                                remote).answer # CannotCure

C39_Witness ==
  /\ CommandRan("CreateSubscription")
  /\ last.input.status = "incomplete"
  /\ customer # last.pre
  /\ state(customer, now) = "free_default.incomplete.requires_payment_method"
  /\ get_context_data(customer, now).requires_payment_method
  /\ ~get_context_data(customer, now).can_cancel
  /\ can_cure(customer)

\* C40: the checkout view called with a paid plan creates the processor's
\* checkout session, and does not answer "User already has a subscription",
\* in every state in which the profile page reports can_create_subscription;
\* in every other state it redirects to the cancel URL and calls nothing.
C40_CheckoutWhereOffered ==
  (last.op = "CreateCheckoutSession" /\ last.input.plan = PAID_PUBLIC) =>
    IF get_context_data(last.pre, last.at).can_create_subscription
    THEN /\ last.input.message # "User already has a subscription."
         /\ "stripe.checkout.Session.create" \in last.calls
    ELSE /\ last.answer = "CHECKOUT_CANCEL_URL"
         /\ last.calls = {}

====
